---- MODULE Spec2Model ----
(***************************************************************************)
(* A model of the sms_AT server (src/index.js): the POST /daraja-callback  *)
(* handler with its Transaction ledger, and the POST /ussd handler with    *)
(* the payment gateway (initiateStkPush) and the SMS client it calls.      *)
(*                                                                         *)
(* JavaScript values are modelled by tagged records, strings that the code *)
(* parses or splits are sequences of one-character strings, and every      *)
(* await of the handlers is a step boundary, so that requests interleave   *)
(* exactly where the event loop lets them.                                 *)
(***************************************************************************)
EXTENDS Integers, Sequences, FiniteSets, TLC

\* ------------------------------------------------------------------ bounds
\* Number of callback requests delivered in one behaviour.
MaxRequests == 2
\* Largest number of '*'-separated tokens in a dial-string.
MaxTokens == 3
\* Largest number of tokens in a dial-string that is posted twice.
MaxReplayTokens == 2
\* Largest length of a generated phone number.
MaxPhoneLen == 4

\* --------------------------------------------------------- JavaScript values
\* A JSON value as the handlers see it: undefined (absent key), null, an
\* opaque string, a string that is parsed as a number, or a JSON number.
Undef == [t |-> "undefined", s |-> "", chars |-> <<>>, n |-> 0]
Null == [t |-> "null", s |-> "", chars |-> <<>>, n |-> 0]
S(str) == [t |-> "string", s |-> str, chars |-> <<>>, n |-> 0]
NS(cs) == [t |-> "numstr", s |-> "", chars |-> cs, n |-> 0]
N(k) == [t |-> "number", s |-> "", chars |-> <<>>, n |-> k]

\* A JavaScript number: an integer or NaN.
NaN == [nan |-> TRUE, v |-> 0]
Num(k) == [nan |-> FALSE, v |-> k]

\* JavaScript truthiness of a JSON value.
Truthy(x) ==
    CASE x.t = "undefined" -> FALSE
      [] x.t = "null" -> FALSE
      [] x.t = "string" -> x.s # ""
      [] x.t = "numstr" -> x.chars # <<>>
      [] OTHER -> x.n # 0

\* a || b
OrElse(a, b) == IF Truthy(a) THEN a ELSE b

Digits == {"0", "1", "2", "3", "4", "5", "6", "7", "8", "9"}

DigitValue(c) ==
    CASE c = "0" -> 0 [] c = "1" -> 1 [] c = "2" -> 2 [] c = "3" -> 3
      [] c = "4" -> 4 [] c = "5" -> 5 [] c = "6" -> 6 [] c = "7" -> 7
      [] c = "8" -> 8 [] OTHER -> 9

RECURSIVE TrimLeft(_)
TrimLeft(cs) ==
    IF cs # <<>> /\ Head(cs) = " " THEN TrimLeft(Tail(cs)) ELSE cs

RECURSIVE TrimRight(_)
TrimRight(cs) ==
    IF cs # <<>> /\ cs[Len(cs)] = " "
    THEN TrimRight(SubSeq(cs, 1, Len(cs) - 1))
    ELSE cs

RECURSIVE DecimalValue(_)
DecimalValue(cs) ==
    IF cs = <<>> THEN 0
    ELSE 10 * DecimalValue(SubSeq(cs, 1, Len(cs) - 1)) + DigitValue(cs[Len(cs)])

AllDigits(cs) == cs # <<>> /\ \A i \in 1..Len(cs) : cs[i] \in Digits

\* Number(string) on the characters the model uses (digits, sign, blank,
\* letters): white space is trimmed, the empty string is 0, an optionally
\* signed run of digits is its value, anything else is NaN.
StringToNumber(cs) ==
    LET t == TrimRight(TrimLeft(cs)) IN
    IF t = <<>> THEN Num(0)
    ELSE IF Head(t) \in {"-", "+"}
         THEN IF AllDigits(Tail(t))
              THEN Num((IF Head(t) = "-" THEN -1 ELSE 1) * DecimalValue(Tail(t)))
              ELSE NaN
         ELSE IF AllDigits(t) THEN Num(DecimalValue(t)) ELSE NaN

\* Number(x) of a JSON value.
ToNumber(x) ==
    CASE x.t = "undefined" -> NaN
      [] x.t = "null" -> Num(0)
      [] x.t = "string" -> IF x.s = "" THEN Num(0) ELSE NaN
      [] x.t = "numstr" -> StringToNumber(x.chars)
      [] OTHER -> Num(x.n)

\* Number(x) || 0
NumberOrZero(x) ==
    LET k == ToNumber(x) IN IF k.nan \/ k.v = 0 THEN Num(0) ELSE k

\* ------------------------------------------------------- callback payloads
NoInvoice ==
    [present |-> FALSE, invoice_id |-> Undef, intasend_tracking_id |-> Undef,
     state |-> Undef, failed_reason |-> Undef, value |-> Undef,
     mpesa_reference |-> Undef, customer_phone_number |-> Undef,
     updated_at |-> Undef]

Invoice(inv, trk, st, reason, val, ref) ==
    [present |-> TRUE, invoice_id |-> inv, intasend_tracking_id |-> trk,
     state |-> st, failed_reason |-> reason, value |-> val,
     mpesa_reference |-> ref, customer_phone_number |-> S("254712345678"),
     updated_at |-> S("2024-05-01T10:00:00")]

NoStk ==
    [present |-> FALSE, MerchantRequestID |-> Undef, CheckoutRequestID |-> Undef,
     ResultCode |-> Undef, ResultDesc |-> Undef, hasMetadata |-> FALSE,
     Item |-> <<>>]

Stk(mid, cid, code, desc, meta, items) ==
    [present |-> TRUE, MerchantRequestID |-> mid, CheckoutRequestID |-> cid,
     ResultCode |-> code, ResultDesc |-> desc, hasMetadata |-> meta,
     Item |-> items]

MetaItem(name, val) == [Name |-> name, Value |-> val]

\* req.body: its invoice key and its Body.stkCallback key.
Payload(inv, hasBody, stk) == [invoice |-> inv, hasBody |-> hasBody, stkCallback |-> stk]

PaidItems ==
    << MetaItem("Amount", N(100)), MetaItem("MpesaReceiptNumber", S("RCPT2")),
       MetaItem("TransactionDate", N(20240501)), MetaItem("PhoneNumber", N(254712)) >>

AggregatorComplete ==
    Payload(Invoice(S("inv1"), S("trk1"), S("COMPLETE"), Undef, NS(<<"5", "0", "0">>), S("RCPT1")),
            FALSE, NoStk)
AggregatorFailed ==
    Payload(Invoice(S("inv2"), S("trk2"), S("FAILED"), S("Request cancelled"), NS(<<"5", "0", "0">>), Undef),
            FALSE, NoStk)
AggregatorFailedWithRef ==
    Payload(Invoice(S("inv2"), S("trk2"), S("FAILED"), S("Request cancelled"), NS(<<"5", "0">>), S("RCPT3")),
            FALSE, NoStk)
AggregatorProcessing ==
    Payload(Invoice(S("inv1"), S("trk1"), S("PROCESSING"), Undef, NS(<<"5", "0", "0">>), Undef),
            FALSE, NoStk)
AggregatorBadValue ==
    Payload(Invoice(S("inv3"), S("trk3"), S("COMPLETE"), Undef, NS(<<"a", "b", "c">>), S("RCPT1")),
            FALSE, NoStk)
AggregatorNegative ==
    Payload(Invoice(S("inv3"), S("trk3"), S("COMPLETE"), Undef, NS(<<"-", "5">>), S("RCPT1")),
            FALSE, NoStk)
LegacySuccess ==
    Payload(NoInvoice, TRUE,
            Stk(S("mr1"), S("ws1"), N(0), S("The service request is processed successfully."), TRUE, PaidItems))
LegacyCancelled ==
    Payload(NoInvoice, TRUE,
            Stk(S("mr2"), S("ws2"), N(1032), S("Request cancelled by user"), FALSE, <<>>))
LegacyNoAmount ==
    Payload(NoInvoice, TRUE,
            Stk(S("mr1"), S("ws1"), N(0), S("ok"), TRUE, << MetaItem("MpesaReceiptNumber", S("RCPT2")) >>))
LegacyEmptyCallback ==
    Payload(NoInvoice, TRUE, Stk(Undef, Undef, Undef, Undef, FALSE, <<>>))
BothShapes ==
    Payload(Invoice(S("inv1"), S("trk1"), S("COMPLETE"), Undef, NS(<<"5", "0", "0">>), S("RCPT1")),
            TRUE,
            Stk(S("mr1"), S("ws1"), N(0), S("ok"), TRUE, PaidItems))
EmptyBody == Payload(NoInvoice, FALSE, NoStk)
BodyWithoutCallback == Payload(NoInvoice, TRUE, NoStk)

Payloads ==
    { AggregatorComplete, AggregatorFailed, AggregatorFailedWithRef,
      AggregatorProcessing, AggregatorBadValue, AggregatorNegative,
      LegacySuccess, LegacyCancelled, LegacyNoAmount, LegacyEmptyCallback,
      BothShapes, EmptyBody, BodyWithoutCallback }

\* --------------------------------------------------------------- variables
VARIABLES
    ledger,     \* the Transaction collection, in insertion order
    cb          \* the callback requests: position, body, fields, answer

cbVars == <<ledger, cb>>

Requests == 1..MaxRequests

\* ------------------------------------------------- POST /daraja-callback
\* A handler without the check of the legacy callback body.
ClassifyWithoutBodyCheck(body) ==
    IF body.invoice.present THEN "intasend" ELSE "daraja"

\* The branch the handler takes: by the truthiness of req.body.invoice,
\* then of req.body.Body.stkCallback.
ClassifyCallback(body) ==
    IF body.invoice.present THEN "intasend"
    ELSE IF body.hasBody /\ body.stkCallback.present THEN "daraja"
    ELSE "ignored"

\* body.state === 'COMPLETE' ? 0 : (body.state === 'FAILED' ? 1 : 2)
IntasendResultCode(state) ==
    IF state = S("COMPLETE") THEN Num(0)
    ELSE IF state = S("FAILED") THEN Num(1)
    ELSE Num(2)

IntasendFields(body) ==
    LET inv == body.invoice IN
    [merchantRequestId |-> inv.invoice_id,
     checkoutRequestId |-> inv.intasend_tracking_id,
     resultCode |-> IntasendResultCode(inv.state),
     resultDesc |-> OrElse(inv.failed_reason, S("Success")),
     amount |-> ToNumber(inv.value),
     mpesaReceiptNumber |-> inv.mpesa_reference,
     phoneNumber |-> inv.customer_phone_number,
     transactionDate |-> inv.updated_at,
     provider |-> "intasend",
     rawCallback |-> body]

\* itemsArray.reduce(...)[name]: the Value of the last item of that Name,
\* undefined when there is none.
RECURSIVE ItemLookup(_, _)
ItemLookup(items, name) ==
    IF items = <<>> THEN Undef
    ELSE LET last == items[Len(items)] IN
         IF last.Name = name THEN last.Value
         ELSE ItemLookup(SubSeq(items, 1, Len(items) - 1), name)

DarajaFields(body) ==
    LET stk == body.stkCallback
        itemsArray == IF stk.hasMetadata THEN stk.Item ELSE <<>>
    IN
    [merchantRequestId |-> stk.MerchantRequestID,
     checkoutRequestId |-> stk.CheckoutRequestID,
     resultCode |-> ToNumber(stk.ResultCode),
     resultDesc |-> stk.ResultDesc,
     amount |-> NumberOrZero(ItemLookup(itemsArray, "Amount")),
     mpesaReceiptNumber |-> OrElse(ItemLookup(itemsArray, "MpesaReceiptNumber"), Null),
     phoneNumber |-> OrElse(ItemLookup(itemsArray, "PhoneNumber"), Null),
     transactionDate |-> OrElse(ItemLookup(itemsArray, "TransactionDate"), Null),
     provider |-> "daraja",
     rawCallback |-> body]

NoFields ==
    [merchantRequestId |-> Undef, checkoutRequestId |-> Undef,
     resultCode |-> NaN, resultDesc |-> Undef, amount |-> NaN,
     mpesaReceiptNumber |-> Undef, phoneNumber |-> Undef,
     transactionDate |-> Undef, provider |-> "", rawCallback |-> EmptyBody]

\* The schema's Number paths reject NaN (a cast error fails validation).
SchemaAccepts(fields) == ~fields.resultCode.nan /\ ~fields.amount.nan

\* The document Transaction.create stores: the schema's paths (the schema
\* of index.js has no provider path, so strict mode drops it) and the
\* createdAt timestamp.
StoredDocument(fields, at) ==
    [merchantRequestId |-> fields.merchantRequestId,
     checkoutRequestId |-> fields.checkoutRequestId,
     resultCode |-> fields.resultCode,
     resultDesc |-> fields.resultDesc,
     amount |-> fields.amount,
     mpesaReceiptNumber |-> fields.mpesaReceiptNumber,
     phoneNumber |-> fields.phoneNumber,
     transactionDate |-> fields.transactionDate,
     rawCallback |-> fields.rawCallback,
     createdAt |-> at]

\* A catch block that answers with a server error.
CatchReplyServerError == [code |-> 500, status |-> "error"]

\* The answers of the handler.
IgnoredReply == [code |-> 200, status |-> "ignored"]
SuccessReply == [code |-> 200, status |-> "success"]
CatchReply == [code |-> 200, status |-> "error"]
NoReply == [code |-> 0, status |-> ""]

IdleCallback ==
    [pc |-> "idle", body |-> EmptyBody, fields |-> NoFields, reply |-> NoReply,
     writeFailed |-> FALSE]

\* A callback arrives: the handler runs to its first await (Transaction.create)
\* or, for a payload of neither shape, to its answer.
CallbackReceive(r, body) ==
    /\ cb[r].pc = "idle"
    /\ LET shape == ClassifyCallback(body) IN
       IF shape = "ignored"
       THEN cb' = [cb EXCEPT ![r] = [@ EXCEPT !.pc = "done", !.body = body,
                                                !.reply = IgnoredReply]]
       ELSE cb' = [cb EXCEPT ![r] = [@ EXCEPT !.pc = "creating", !.body = body,
                                                !.fields = IF shape = "intasend"
                                                           THEN IntasendFields(body)
                                                           ELSE DarajaFields(body)]]
    /\ UNCHANGED ledger

\* A handler that does not wait for the write before it answers success.
CallbackCreateUnawaited(r, dbUp) ==
    /\ cb[r].pc = "creating"
    /\ IF dbUp /\ SchemaAccepts(cb[r].fields)
       THEN /\ ledger' = Append(ledger, StoredDocument(cb[r].fields, Len(ledger) + 1))
            /\ cb' = [cb EXCEPT ![r] = [@ EXCEPT !.pc = "done", !.reply = SuccessReply]]
       ELSE /\ ledger' = ledger
            /\ cb' = [cb EXCEPT ![r] = [@ EXCEPT !.pc = "done", !.reply = SuccessReply,
                                                     !.writeFailed = TRUE]]

\* Transaction.create settles and the handler answers: the document is
\* appended and the answer is success, or the write is rejected (validation,
\* or the database is unreachable) and the catch block answers.
CallbackCreate(r, dbUp) ==
    /\ cb[r].pc = "creating"
    /\ IF dbUp /\ SchemaAccepts(cb[r].fields)
       THEN /\ ledger' = Append(ledger, StoredDocument(cb[r].fields, Len(ledger) + 1))
            /\ cb' = [cb EXCEPT ![r] = [@ EXCEPT !.pc = "done", !.reply = SuccessReply]]
       ELSE /\ ledger' = ledger
            /\ cb' = [cb EXCEPT ![r] = [@ EXCEPT !.pc = "done", !.reply = CatchReply,
                                                     !.writeFailed = TRUE]]

CbInit ==
    /\ ledger = <<>>
    /\ cb = [r \in Requests |-> IdleCallback]

\* ------------------------------------------------------------- dial-strings
\* A string is a sequence of chunks: single characters where the code looks
\* inside it (the dial-string, the phone number), whole literals elsewhere.

\* The tokens a subscriber enters: menu choices, amounts, and malformed input.
DialTokens ==
    { <<>>, <<"0">>, <<"1">>, <<"2">>, <<"3">>, <<"1", "0", "0">>,
      <<"a", "b", "c">>, <<"-", "5">>, <<" ">> }

RECURSIVE Join(_)
Join(toks) ==
    IF Len(toks) = 1 THEN toks[1]
    ELSE toks[1] \o <<"*">> \o Join(Tail(toks))

TokenSeqs == UNION { [1..k -> DialTokens] : k \in 1..MaxTokens }

\* The accumulated dial-strings the carrier may post.
DialStrings == { Join(toks) : toks \in TokenSeqs }

\* text.split('*')
RECURSIVE Split(_)
Split(cs) ==
    IF \E i \in 1..Len(cs) : cs[i] = "*"
    THEN LET i == CHOOSE j \in 1..Len(cs) :
                      cs[j] = "*" /\ \A k \in 1..(j - 1) : cs[k] # "*"
         IN <<SubSeq(cs, 1, i - 1)>> \o Split(SubSeq(cs, i + 1, Len(cs)))
    ELSE <<cs>>

\* text.startsWith(prefix)
StartsWith(cs, prefix) ==
    Len(cs) >= Len(prefix) /\ SubSeq(cs, 1, Len(prefix)) = prefix

\* isNaN(amount) of a string
IsNaN(cs) == StringToNumber(cs).nan

\* The phone numbers the carrier may supply; <<>> is a body without one.
Phones ==
    { <<>>, <<"0", "7", "1", "2">>, <<"+", "2", "5", "4", "7", "1", "2">>,
      <<"2", "5", "4", "7", "1", "2">> }

\* phone.replace(/[^0-9]/g, '')
RECURSIVE DigitsOnly(_)
DigitsOnly(cs) ==
    IF cs = <<>> THEN <<>>
    ELSE (IF Head(cs) \in Digits THEN <<Head(cs)>> ELSE <<>>) \o DigitsOnly(Tail(cs))

\* A normalization that keeps the trunk digit behind the country prefix.
FormatPhoneKeepsTrunk(phone) ==
    LET formattedPhone == DigitsOnly(phone) IN
    IF ~StartsWith(formattedPhone, <<"2", "5", "4">>) /\ StartsWith(formattedPhone, <<"0">>)
    THEN <<"2", "5", "4">> \o formattedPhone
    ELSE formattedPhone

\* initiateStkPush's formattedPhone
FormatPhone(phone) ==
    LET formattedPhone == DigitsOnly(phone) IN
    IF ~StartsWith(formattedPhone, <<"2", "5", "4">>) /\ StartsWith(formattedPhone, <<"0">>)
    THEN <<"2", "5", "4">> \o Tail(formattedPhone)
    ELSE formattedPhone

\* ------------------------------------------------------------ POST /ussd
\* A menu screen sent without its session prefix.
ConWithoutPrefix(msg) == msg

Con(msg) == <<"CON", " ">> \o msg
End(msg) == <<"END", " ">> \o msg

\* A test that takes every response for a session end.
StartsWithAnything(response) == response # <<>>

\* response.startsWith('END')
StartsWithEND(response) == response # <<>> /\ Head(response) = "END"

\* response.replace(/^END\s*/, '')
RECURSIVE DropBlanks(_)
DropBlanks(cs) ==
    IF cs # <<>> /\ Head(cs) = " " THEN DropBlanks(Tail(cs)) ELSE cs

StripEND(response) ==
    IF StartsWithEND(response) THEN DropBlanks(Tail(response)) ELSE response

RootMenu == Con(<<"Welcome to Bima.\n1. Meter Reading\n2. Pay Water Bill\n3. Report Issue\n0. Exit">>)
UsageMessage == End(<<"Your current water consumption is ", "12,500 Litres", ".">>)
AmountPrompt == Con(<<"Enter amount to pay:">>)
InvalidAmount == End(<<"Invalid amount entered.">>)
StkInitiated == End(<<"STK Push initiated. Complete payment on your phone.">>)
StkNoInvoice == End(<<"Failed to initiate payment. Try again later.">>)
StkFailed == End(<<"Payment request failed. Please try again later.">>)
IssueMenu == Con(<<"Which issue are you reporting:\n1. Water outage\n2. Pipe leakage">>)
ThankYou(issueType) == End(<<"Thank you for reporting: ", issueType, ". Our team will address it shortly.">>)
InvalidIssue == End(<<"Invalid issue option selected.">>)
Goodbye == End(<<"Thank you for using Bima.">>)
InvalidOption == End(<<"Invalid option selected.">>)

AlertMessage(phoneNumber, issueType) ==
    <<"ALERT: Household ">> \o phoneNumber \o <<" reported a '", issueType, "'. Please investigate.">>

\* issueOption === '1' ? 'Water outage' : issueOption === '2' ? 'Pipe leakage' : ''
IssueType(issueOption) ==
    IF issueOption = <<"1">> THEN "Water outage"
    ELSE IF issueOption = <<"2">> THEN "Pipe leakage"
    ELSE ""

\* !amount || isNaN(amount)
AmountRejected(amount) == amount = <<>> \/ IsNaN(amount)

\* The menu: what the handler decides from the dial-string before any await.
\* pay is TRUE when the handler goes on to call initiateStkPush.
Decision(response, pay, amount, smsToSend, smsMessage) ==
    [response |-> response, pay |-> pay, amount |-> amount,
     smsToSend |-> smsToSend, smsMessage |-> smsMessage]

Menu(phoneNumber, text) ==
    LET textArray == Split(text) IN
    IF text = <<>> THEN Decision(RootMenu, FALSE, <<>>, <<>>, <<>>)
    ELSE IF text = <<"1">> THEN Decision(UsageMessage, FALSE, <<>>, <<>>, <<>>)
    ELSE IF text = <<"2">> THEN Decision(AmountPrompt, FALSE, <<>>, <<>>, <<>>)
    ELSE IF StartsWith(text, <<"2", "*">>)
         THEN LET amount == textArray[2] IN
              IF AmountRejected(amount)
              THEN Decision(InvalidAmount, FALSE, <<>>, <<>>, <<>>)
              ELSE Decision(<<>>, TRUE, amount, <<>>, <<>>)
    ELSE IF text = <<"3">> THEN Decision(IssueMenu, FALSE, <<>>, <<>>, <<>>)
    ELSE IF StartsWith(text, <<"3", "*">>)
         THEN LET issueType == IssueType(textArray[2]) IN
              IF issueType # ""
              THEN Decision(ThankYou(issueType), FALSE, <<>>, phoneNumber,
                            AlertMessage(phoneNumber, issueType))
              ELSE Decision(InvalidIssue, FALSE, <<>>, <<>>, <<>>)
    ELSE IF text = <<"0">> THEN Decision(Goodbye, FALSE, <<>>, <<>>, <<>>)
    ELSE Decision(InvalidOption, FALSE, <<>>, <<>>, <<>>)

\* What a provider does with one call: the gateway answers with an invoice,
\* answers without one, fails (network error or non-2xx, which axios throws),
\* or never answers; the SMS client resolves, rejects, or never settles.
\* detail is the provider's own text (response data or error message).
Outcome(kind, detail) == [kind |-> kind, detail |-> detail]
NoOutcome == Outcome("none", "")

GatewayOutcomes ==
    { Outcome("invoice", "INV-7Q2"),
      Outcome("noinvoice", "Duplicate request detected"),
      Outcome("throw", "Request failed with status code 500"),
      Outcome("throw", "connect ETIMEDOUT"),
      Outcome("never", "") }

SmsOutcomes ==
    { Outcome("ok", "ATXid_1"), Outcome("throw", "InvalidSenderId"), Outcome("never", "") }

\* INTASEND_PUBLIC_KEY and INTASEND_PRIVATE_KEY are set in the deployment
\* (environment loading is outside the modelled core).
CredentialsConfigured == TRUE

\* A handler that reports the payment as made once the gateway accepts.
StkResponsePromisesCompletion(o) ==
    IF o.kind = "invoice" THEN End(<<"Payment received. Thank you.">>)
    ELSE IF o.kind = "noinvoice" THEN StkNoInvoice
    ELSE StkFailed

\* A handler that passes the provider's text on to the subscriber.
StkResponseLeaksDetail(o) ==
    IF o.kind = "invoice" THEN StkInitiated
    ELSE End(<<"Payment request failed: ", o.detail>>)

\* The handler's response to what initiateStkPush did.
StkResponse(o) ==
    IF o.kind = "invoice" THEN StkInitiated
    ELSE IF o.kind = "noinvoice" THEN StkNoInvoice
    ELSE StkFailed

\* The outbound calls and the answer of one request, in the order made.
StkCall(phone, amount) ==
    [op |-> "stk", site |-> "initiateStkPush", to |-> phone, amount |-> amount,
     body |-> <<>>, code |-> 0]
SmsCall(site, to, message) ==
    [op |-> "sms", site |-> site, to |-> to, amount |-> <<>>, body |-> message, code |-> 0]
Reply(code, type, body) ==
    [op |-> "reply", site |-> type, to |-> <<>>, amount |-> <<>>, body |-> body, code |-> code]

\* res.set('Content-Type', 'text/plain'); res.send(response)
TextReply(response) == Reply(200, "text/plain", response)
\* res.status(400).json({status: 'error', message: 'Phone number is required'})
MissingPhoneReply == Reply(400, "json", <<"Phone number is required">>)

VARIABLES
    ussd,       \* the USSD request being handled: position and locals
    out         \* its outbound calls and its answer, in the order made

ussdVars == <<ussd, out>>

VARIABLES
    prev,       \* the same request as handled before: its locals and calls
    norm        \* a phone number and its normalization, once and twice

pureVars == <<prev, norm>>
vars == <<ledger, cb, ussd, out, prev, norm>>

IdleUssd ==
    [pc |-> "idle", phoneNumber |-> <<>>, text |-> <<>>, response |-> <<>>,
     amount |-> <<>>, smsToSend |-> <<>>, smsMessage |-> <<>>,
     pending |-> NoOutcome, stk |-> NoOutcome, alert |-> NoOutcome,
     final |-> NoOutcome]

\* The session-end SMS block and the answer: for an END response the SMS to
\* the subscriber is sent and awaited; otherwise the handler answers at once.
EndPhase(u, log, sms) ==
    IF StartsWithEND(u.response)
    THEN /\ ussd' = [u EXCEPT !.pc = "endSms", !.pending = sms]
         /\ out' = Append(log, SmsCall("end", u.phoneNumber, StripEND(u.response)))
    ELSE /\ ussd' = [u EXCEPT !.pc = "done", !.pending = NoOutcome]
         /\ out' = Append(log, TextReply(u.response))

\* The issue-report alert block, then the rest of the handler.
AlertPhase(u, log, sms) ==
    IF StartsWithEND(u.response) /\ u.smsToSend # <<>> /\ u.smsMessage # <<>>
    THEN /\ ussd' = [u EXCEPT !.pc = "alertSms", !.pending = sms]
         /\ out' = Append(log, SmsCall("alert", u.smsToSend, u.smsMessage))
    ELSE EndPhase(u, log, sms)

\* A dial-string arrives: the handler runs to its first await, or to its
\* answer when there is none. gw and sms are what the provider called at
\* that await is going to do.
UssdHandle(phoneNumber, text, gw, sms) ==
    IF phoneNumber = <<>>
    THEN /\ ussd' = [IdleUssd EXCEPT !.pc = "done", !.text = text]
         /\ out' = <<MissingPhoneReply>>
    ELSE LET d == Menu(phoneNumber, text)
             u == [IdleUssd EXCEPT !.phoneNumber = phoneNumber, !.text = text,
                                   !.response = d.response, !.amount = d.amount,
                                   !.smsToSend = d.smsToSend,
                                   !.smsMessage = d.smsMessage]
         IN IF d.pay
            THEN IF CredentialsConfigured
                 THEN /\ ussd' = [u EXCEPT !.pc = "stk", !.pending = gw]
                      /\ out' = <<StkCall(FormatPhone(phoneNumber), d.amount)>>
                 ELSE AlertPhase([u EXCEPT !.response = StkFailed,
                                           !.stk = Outcome("throw", "Missing INTASEND_PUBLIC_KEY or INTASEND_PRIVATE_KEY in environment variables")],
                                 <<>>, sms)
            ELSE AlertPhase(u, <<>>, sms)

UssdReceive(phoneNumber, text, gw, sms) ==
    /\ ussd.pc = "idle"
    /\ UssdHandle(phoneNumber, text, gw, sms)

\* The carrier posts the same phone number and dial-string once more, after
\* the first request was answered: a new run of the handler.
NoPrev == [set |-> FALSE, ussd |-> IdleUssd, out |-> <<>>]

UssdRepeat(gw, sms) ==
    /\ ussd.pc = "done"
    /\ ~prev.set
    /\ prev' = [set |-> TRUE, ussd |-> ussd, out |-> out]
    /\ UssdHandle(ussd.phoneNumber, ussd.text, gw, sms)

\* initiateStkPush settles and the handler goes on to its next await.
UssdStkReturn(sms) ==
    /\ ussd.pc = "stk"
    /\ ussd.pending.kind # "never"
    /\ AlertPhase([ussd EXCEPT !.response = StkResponse(ussd.pending),
                               !.stk = ussd.pending],
                  out, sms)

\* The alert SMS settles (a rejection is caught and logged).
UssdAlertReturn(sms) ==
    /\ ussd.pc = "alertSms"
    /\ ussd.pending.kind # "never"
    /\ EndPhase([ussd EXCEPT !.alert = ussd.pending], out, sms)

\* A handler without the try/catch around the session-end SMS: a rejected
\* send ends the request with a server error.
ReplyAfterSmsUncaught(o, response) ==
    IF o.kind = "throw"
    THEN Reply(500, "text/html", <<"Internal Server Error">>)
    ELSE TextReply(response)

\* The answer once the session-end SMS has settled: the catch block only
\* logs, so the answer is the response whatever the send did.
ReplyAfterSms(o, response) == TextReply(response)

\* The session-end SMS settles and the handler answers.
UssdEndReturn ==
    /\ ussd.pc = "endSms"
    /\ ussd.pending.kind # "never"
    /\ ussd' = [ussd EXCEPT !.pc = "done", !.final = ussd.pending,
                            !.pending = NoOutcome]
    /\ out' = Append(out, ReplyAfterSms(ussd.pending, ussd.response))

UssdInit ==
    /\ ussd = IdleUssd
    /\ out = <<>>
    /\ prev = NoPrev

\* ------------------------------------------------------ phone normalization
PhoneChars == {"0", "2", "4", "5", "7", "+"}

LocalExample == <<"0", "7", "1", "2", "3", "4", "5", "6", "7", "8">>
InternationalExample == <<"2", "5", "4", "7", "1", "2", "3", "4", "5", "6", "7", "8">>

\* The phone numbers normalized: every string of PhoneChars up to
\* MaxPhoneLen, and the two full-length examples.
PhoneInputs ==
    UNION { [1..k -> PhoneChars] : k \in 0..MaxPhoneLen }
        \cup {LocalExample, InternationalExample, <<"+">> \o InternationalExample}

NormInput(phone) == [pc |-> "input", phone |-> phone, once |-> <<>>, twice |-> <<>>]

\* The normalization of initiateStkPush applied to the input ...
NormalizeOnce ==
    /\ norm.pc = "input"
    /\ norm' = [norm EXCEPT !.pc = "once", !.once = FormatPhone(norm.phone)]

\* ... and applied again to its own result.
NormalizeTwice ==
    /\ norm.pc = "once"
    /\ norm' = [norm EXCEPT !.pc = "twice", !.twice = FormatPhone(norm.once)]

PhoneNext ==
    \/ NormalizeOnce /\ UNCHANGED <<cbVars, ussdVars, prev>>
    \/ NormalizeTwice /\ UNCHANGED <<cbVars, ussdVars, prev>>

\* ------------------------------------------------------------ specifications
Init == CbInit /\ UssdInit /\ norm = NormInput(<<>>)

PhoneInit == CbInit /\ UssdInit /\ norm \in { NormInput(p) : p \in PhoneInputs }

CallbackNext ==
    \/ \E r \in Requests, body \in Payloads :
          CallbackReceive(r, body) /\ UNCHANGED <<ussdVars, pureVars>>
    \/ \E r \in Requests, dbUp \in BOOLEAN :
          CallbackCreate(r, dbUp) /\ UNCHANGED <<ussdVars, pureVars>>

UssdNext ==
    \/ /\ ussd.pc = "idle"
       /\ \E phoneNumber \in Phones, text \in DialStrings,
             gw \in GatewayOutcomes, sms \in SmsOutcomes :
             UssdReceive(phoneNumber, text, gw, sms) /\ UNCHANGED <<cbVars, pureVars>>
    \/ \E sms \in SmsOutcomes : UssdStkReturn(sms) /\ UNCHANGED <<cbVars, pureVars>>
    \/ \E sms \in SmsOutcomes : UssdAlertReturn(sms) /\ UNCHANGED <<cbVars, pureVars>>
    \/ UssdEndReturn /\ UNCHANGED <<cbVars, pureVars>>

\* The dial-strings that are posted twice.
ReplayDialStrings ==
    { Join(toks) : toks \in UNION { [1..k -> DialTokens] : k \in 1..MaxReplayTokens } }

\* One request, and the same request once more after it was answered.
ReplayNext ==
    \/ /\ ussd.pc = "idle"
       /\ \E phoneNumber \in Phones, text \in ReplayDialStrings,
             gw \in GatewayOutcomes, sms \in SmsOutcomes :
             UssdReceive(phoneNumber, text, gw, sms) /\ UNCHANGED <<cbVars, pureVars>>
    \/ \E sms \in SmsOutcomes : UssdStkReturn(sms) /\ UNCHANGED <<cbVars, pureVars>>
    \/ \E sms \in SmsOutcomes : UssdAlertReturn(sms) /\ UNCHANGED <<cbVars, pureVars>>
    \/ UssdEndReturn /\ UNCHANGED <<cbVars, pureVars>>
    \/ \E gw \in GatewayOutcomes, sms \in SmsOutcomes :
          UssdRepeat(gw, sms) /\ UNCHANGED <<cbVars, norm>>

\* The callback endpoint and its ledger.
LedgerSpec == Init /\ [][CallbackNext]_vars

\* The USSD endpoint.
UssdSpec == Init /\ [][UssdNext]_vars

\* The USSD endpoint with the event loop's guarantee: a continuation whose
\* awaited call has settled does run. Nothing obliges a provider to answer.
UssdFairSpec ==
    /\ UssdSpec
    /\ WF_vars(\E sms \in SmsOutcomes : UssdStkReturn(sms) /\ UNCHANGED <<cbVars, pureVars>>)
    /\ WF_vars(\E sms \in SmsOutcomes : UssdAlertReturn(sms) /\ UNCHANGED <<cbVars, pureVars>>)
    /\ WF_vars(UssdEndReturn /\ UNCHANGED <<cbVars, pureVars>>)

\* The USSD endpoint receiving one request twice.
ReplaySpec == Init /\ [][ReplayNext]_vars

\* The phone normalization applied to generated numbers.
PhoneSpec == PhoneInit /\ [][PhoneNext]_vars

Next == CallbackNext \/ UssdNext \/ ReplayNext \/ PhoneNext
Spec == Init /\ [][Next]_vars

\* ------------------------------------------------------------------ claims
\* The answer of the USSD request, once made.
Answered == ussd.pc = "done"
Answer == out[Len(out)]
StkCalls == { i \in DOMAIN out : out[i].op = "stk" }
AlertCalls == { i \in DOMAIN out : out[i].op = "sms" /\ out[i].site = "alert" }
EndCalls == { i \in DOMAIN out : out[i].op = "sms" /\ out[i].site = "end" }
Replies == { i \in DOMAIN out : out[i].op = "reply" }

\* The request carries a phone number and has been received.
Handling == ussd.pc # "idle" /\ ussd.phoneNumber # <<>>
Tokens == Split(ussd.text)

\* A valid non-negative number: not empty, not blank, numeric, not negative.
ValidAmount(a) ==
    /\ TrimLeft(a) # <<>>
    /\ ~StringToNumber(a).nan
    /\ StringToNumber(a).v >= 0

\* The token sequences of the menu tree.
MenuShape(toks) ==
    \/ Len(toks) = 1 /\ toks[1] \in {<<>>, <<"0">>, <<"1">>, <<"2">>, <<"3">>}
    \/ Len(toks) = 2 /\ toks[1] \in {<<"2">>, <<"3">>}

NeitherShape(body) ==
    ~body.invoice.present /\ ~(body.hasBody /\ body.stkCallback.present)

\* C1: the ledger holds at most one record per natural key: no two records
\* share their checkoutRequestId and merchantRequestId.
C1_NaturalKeyUnique ==
    \A i, j \in DOMAIN ledger :
        (i # j) =>
            ~(/\ ledger[i].checkoutRequestId = ledger[j].checkoutRequestId
              /\ ledger[i].merchantRequestId = ledger[j].merchantRequestId)

\* C2: every answered callback is answered 200 with status success, ignored
\* or error, and a failed ledger write is answered 200 error.
C2_CallbackAlways200 ==
    \A r \in Requests :
        cb[r].pc = "done" =>
            /\ cb[r].reply.code = 200
            /\ cb[r].reply.status \in {"success", "ignored", "error"}
            /\ cb[r].writeFailed => cb[r].reply.status = "error"

C2_Witness ==
    \E r \in Requests :
        cb[r].pc = "done" /\ cb[r].writeFailed /\ cb[r].reply.status = "error"

\* C3: a payload of neither shape is answered 200 ignored at once, never
\* reaches the ledger write, and no record of it is in the ledger.
C3_NeitherShapeIgnored ==
    /\ \A r \in Requests :
          (cb[r].pc # "idle" /\ NeitherShape(cb[r].body)) =>
              /\ cb[r].pc = "done"
              /\ cb[r].reply = [code |-> 200, status |-> "ignored"]
              /\ ~cb[r].writeFailed
    /\ \A i \in DOMAIN ledger : ~NeitherShape(ledger[i].rawCallback)

C3_Witness ==
    \E r \in Requests :
        /\ cb[r].pc = "done" /\ cb[r].body = BodyWithoutCallback
        /\ cb[r].reply.status = "ignored"
        /\ Len(ledger) = 1

\* C4: for tokens ["2", amount] with amount not a valid non-negative number
\* the reply is "Invalid amount entered." and no payment request is sent.
C4_InvalidAmountRejected ==
    (Handling /\ Len(Tokens) = 2 /\ Tokens[1] = <<"2">> /\ ~ValidAmount(Tokens[2])) =>
        /\ StkCalls = {}
        /\ Answered => Answer = TextReply(InvalidAmount)

C6_OffMenuRejected ==
    (Handling /\ ~MenuShape(Tokens)) =>
        /\ StkCalls = {}
        /\ AlertCalls = {}
        /\ Answered => Answer = TextReply(InvalidOption)

\* C7: an END response is also sent to the subscriber as an SMS, after the
\* reply has been sent; a CON response has no such SMS.
C7_ReplyThenTerminalSms ==
    /\ \A i \in EndCalls : \E j \in Replies : j < i
    /\ (Answered /\ Answer.code = 200 /\ StartsWithEND(Answer.body)) =>
          \E i \in EndCalls :
              out[i].to = ussd.phoneNumber /\ out[i].body = StripEND(Answer.body)
    /\ (Answered /\ ~StartsWithEND(Answer.body)) => EndCalls = {}

\* C8: every request received is eventually answered, whatever the gateway
\* and the SMS provider do.
C8_EveryRequestAnswered == (ussd.pc # "idle") ~> (ussd.pc = "done")

\* C9: the reply is the one the dial-string and the gateway's answer decide,
\* with status 200, whether the SMS sends succeeded or threw.
C9_SmsFailureKeepsReply ==
    (Answered /\ ussd.phoneNumber # <<>>) =>
        /\ Answer.op = "reply" /\ Answer.code = 200
        /\ Answer.body = IF ussd.stk.kind # "none"
                         THEN StkResponse(ussd.stk)
                         ELSE Menu(ussd.phoneNumber, ussd.text).response

C9_Witness ==
    /\ Answered /\ ussd.alert.kind = "throw" /\ ussd.final.kind = "throw"
    /\ Answer.code = 200 /\ Answer.body = ThankYou("Pipe leakage")

\* The texts the gateway hands back: response data and error messages.
ProviderTexts == { o.detail : o \in GatewayOutcomes } \ {""}

\* C10: after a gateway failure the reply is one of the two fixed failure
\* messages, the session-end SMS is that message, and no text of the
\* provider is part of either.
C10_GatewayFailureUserSafe ==
    (ussd.stk.kind \in {"noinvoice", "throw"}) =>
        \A i \in DOMAIN out :
            out[i].op \in {"sms", "reply"} =>
                /\ out[i].body \in {StkNoInvoice, StkFailed,
                                    StripEND(StkNoInvoice), StripEND(StkFailed)}
                /\ \A k \in DOMAIN out[i].body : out[i].body[k] \notin ProviderTexts

C10_Witness ==
    /\ Answered /\ ussd.stk = Outcome("throw", "connect ETIMEDOUT")
    /\ Answer = TextReply(StkFailed)
    /\ \E i \in EndCalls : out[i].body = StripEND(StkFailed)

\* C11 as stated: every answer of POST /ussd is 200 with a plain-text body
\* that starts with "CON " or "END ".
C11_AlwaysConOrEnd ==
    Answered =>
        /\ Answer.op = "reply" /\ Answer.code = 200 /\ Answer.site = "text/plain"
        /\ Len(Answer.body) >= 2
        /\ Answer.body[1] \in {"CON", "END"} /\ Answer.body[2] = " "

\* C11 amended: a request that carries a phone number is answered 200 with a
\* plain-text body that starts with "CON " or "END "; a request without one
\* is answered 400 with the JSON error "Phone number is required".
C11_ConOrEndWithPhone ==
    Answered =>
        IF ussd.phoneNumber # <<>>
        THEN /\ Answer.op = "reply" /\ Answer.code = 200
             /\ Answer.site = "text/plain"
             /\ Len(Answer.body) >= 2
             /\ Answer.body[1] \in {"CON", "END"} /\ Answer.body[2] = " "
        ELSE Answer = MissingPhoneReply /\ Len(out) = 1

C11_Witness ==
    /\ Answered /\ ussd.phoneNumber # <<>> /\ ussd.text = <<"3">>
    /\ Answer.code = 200 /\ Answer.body[1] = "CON"

\* C13: every ledger record's resultCode is one of the three canonical
\* values (0 success, 1 failed, 2 pending): COMPLETE gives success, FAILED
\* failed, any other state pending; a legacy ResultCode 0 gives success and
\* every other legacy ResultCode gives failed.
C13_CanonicalResultCode ==
    \A i \in DOMAIN ledger :
        LET doc == ledger[i]
            raw == doc.rawCallback
        IN /\ ~doc.resultCode.nan /\ doc.resultCode.v \in {0, 1, 2}
           /\ IF raw.invoice.present
              THEN doc.resultCode.v =
                      (IF raw.invoice.state = S("COMPLETE") THEN 0
                       ELSE IF raw.invoice.state = S("FAILED") THEN 1 ELSE 2)
              ELSE doc.resultCode.v =
                      (IF raw.stkCallback.ResultCode = N(0) THEN 0 ELSE 1)

\* C14: for tokens ["3", option] with option "1" or "2" the reply is the
\* thank-you message and one issue-report SMS is sent, to an address other
\* than the reporting subscriber's; for any other option the reply is
\* "Invalid issue option selected." and no issue-report SMS is sent.
C14_IssueReportToOperations ==
    (Handling /\ Len(Tokens) = 2 /\ Tokens[1] = <<"3">>) =>
        IF Tokens[2] \in {<<"1">>, <<"2">>}
        THEN /\ Cardinality(AlertCalls) = 1
             /\ \A i \in AlertCalls :
                   /\ out[i].to # ussd.phoneNumber
                   /\ out[i].body = AlertMessage(ussd.phoneNumber, IssueType(Tokens[2]))
             /\ Answered => Answer = TextReply(ThankYou(IssueType(Tokens[2])))
        ELSE /\ AlertCalls = {}
             /\ Answered => Answer = TextReply(InvalidIssue)

\* The normalized form of a phone number: digits only, a leading 0 replaced
\* by 254.
Normalized(p) ==
    LET d == SelectSeq(p, LAMBDA c : c \in Digits) IN
    IF d # <<>> /\ Head(d) = "0" /\ ~(Len(d) >= 3 /\ SubSeq(d, 1, 3) = <<"2", "5", "4">>)
    THEN <<"2", "5", "4">> \o Tail(d)
    ELSE d

\* C15: every SMS send and every payment request of a USSD request uses the
\* subscriber's phone number in normalized form.
C15_OutboundPhoneNormalized ==
    \A i \in DOMAIN out :
        out[i].op \in {"stk", "sms"} => out[i].to = Normalized(ussd.phoneNumber)

\* C17: a ledger record has a receipt number only if its resultCode is
\* success.
C17_ReceiptOnlyOnSuccess ==
    \A i \in DOMAIN ledger :
        Truthy(ledger[i].mpesaReceiptNumber) =>
            (~ledger[i].resultCode.nan /\ ledger[i].resultCode.v = 0)

\* C18: every ledger record's amount is a non-negative number, and a legacy
\* callback without an Amount item is stored with amount 0.
C18_AmountNonNegative ==
    \A i \in DOMAIN ledger :
        /\ ~ledger[i].amount.nan
        /\ ledger[i].amount.v >= 0
        /\ ledger[i].rawCallback = LegacyNoAmount => ledger[i].amount.v = 0

\* C19: a callback request is answered success exactly when it appended one
\* record; a request answered ignored or error appended none; no step of a
\* request appends more than one record, and only the step that answers
\* success appends.
C19_SuccessIffAppended ==
    [][ /\ Len(ledger') \in {Len(ledger), Len(ledger) + 1}
        /\ SubSeq(ledger', 1, Len(ledger)) = ledger
        /\ \A r \in Requests :
              cb'[r] # cb[r] =>
                  ((Len(ledger') = Len(ledger) + 1) <=>
                      (cb'[r].pc = "done" /\ cb'[r].reply.status = "success")) ]_vars

C19_Witness ==
    /\ Len(ledger) = 1
    /\ \E r \in Requests : cb[r].pc = "done" /\ cb[r].reply.status = "success"
    /\ \E r \in Requests : cb[r].pc = "done" /\ cb[r].reply.status = "error"

\* C20: a request answered with a CON response made no outbound call, and
\* no request issues more than one payment request.
C20_ContinueHasNoEffect ==
    /\ Cardinality(StkCalls) <= 1
    /\ (Answered /\ Answer.code = 200 /\ ~StartsWithEND(Answer.body)) =>
          /\ StkCalls = {} /\ AlertCalls = {} /\ EndCalls = {}
          /\ Len(out) = 1
    /\ (Handling /\ Menu(ussd.phoneNumber, ussd.text).response \in {RootMenu, AmountPrompt, IssueMenu}) =>
          Answered /\ Len(out) = 1

C20_Witness ==
    /\ Answered /\ Answer = TextReply(AmountPrompt) /\ Len(out) = 1

\* The side effects a request asked for: its payment requests and its
\* issue-report SMS, in order.
Effects(log) == SelectSeq(log, LAMBDA e : e.op = "stk" \/ (e.op = "sms" /\ e.site = "alert"))
PrevAnswer == prev.out[Len(prev.out)]
BothAnswered == prev.set /\ Answered

\* C12 as stated: the same phone number and dial-string give the same
\* response and the same side effects, whatever the earlier request, the
\* gateway and the SMS provider did.
C12_SameRequestSameResult ==
    BothAnswered =>
        /\ Answer = PrevAnswer
        /\ Effects(out) = Effects(prev.out)

\* C12 amended: the same phone number and dial-string give the same side
\* effects, the same status and the same CON/END kind, whatever the earlier
\* request, the gateway and the SMS provider did, and the same response
\* text whenever the gateway answered alike (invoice, no invoice, failure).
C12_SameRequestSameResultPerGateway ==
    BothAnswered =>
        /\ Effects(out) = Effects(prev.out)
        /\ Answer.code = PrevAnswer.code
        /\ Head(Answer.body) = Head(PrevAnswer.body)
        /\ (ussd.stk.kind = prev.ussd.stk.kind) => (Answer = PrevAnswer)

C12_Witness ==
    /\ BothAnswered /\ ussd.text = <<"2", "*", "1", "0", "0">>
    /\ ussd.stk = Outcome("throw", "connect ETIMEDOUT")
    /\ prev.ussd.stk = Outcome("throw", "Request failed with status code 500")
    /\ ussd.final.kind = "throw" /\ prev.ussd.final.kind = "ok"
    /\ Answer = PrevAnswer /\ Answer = TextReply(StkFailed)

\* A number in international form: digits only, starting with 254.
International(p) ==
    /\ Len(p) >= 3 /\ SubSeq(p, 1, 3) = <<"2", "5", "4">>
    /\ \A i \in DOMAIN p : p[i] \in Digits

\* C16: normalization maps "0712345678" to "254712345678", returns a number
\* in international form unchanged, and applied to its own result changes
\* nothing.
C16_NormalizeIdempotent ==
    /\ (norm.pc # "input" /\ norm.phone = LocalExample) => norm.once = InternationalExample
    /\ (norm.pc # "input" /\ International(norm.phone)) => norm.once = norm.phone
    /\ norm.pc = "twice" => norm.twice = norm.once

C16_Witness ==
    /\ norm.pc = "twice" /\ norm.phone = LocalExample
    /\ norm.twice = InternationalExample

====
